---- MODULE Spec2Model ----
(***************************************************************************)
(* Model of the openkms daemon lifecycle controller: the `start` / `stop`  *)
(* command line, the PID file var/openkms.pid, the re-executing            *)
(* daemonizer, the signal set-up and the shutdown hand-off between the     *)
(* listener goroutine and main.                                            *)
(*                                                                         *)
(* Each operating-system process is a slot p \in Pids.  One action is one  *)
(* system call (or one run of purely local code between two system calls)  *)
(* of one process, so that every interleaving of concurrently running      *)
(* invocations is explored.  The PID file content is a sequence of         *)
(* one-character strings, so that os.OpenFile without O_TRUNC, fmt.Fprint  *)
(* and strconv.Atoi are modelled by what they do to the text.              *)
(***************************************************************************)
EXTENDS Integers, Sequences, FiniteSets, TLC

\* ------------------------------------------------------------------ bounds
\* Number of events from outside in one behaviour: command lines the user
\* types, signals somebody else sends, unrelated processes that appear.
MaxEvents == 3

\* Process identifiers the operating system hands out (and reuses).
Pids == {1, 2, 12}

\* The PID file does not exist (os.ReadFile fails with ENOENT).
Absent == <<"ENOENT">>

\* What a previous run, or the administrator, may have left in the PID file.
InitialContents == {Absent, <<"x">>, <<"1", "2">>}

\* ----------------------------------------------------------- text <-> int
Digits == <<"0", "1", "2", "3", "4", "5", "6", "7", "8", "9">>

IsDigit(c) == \E i \in 1..10 : Digits[i] = c

DigitVal(c) == (CHOOSE i \in 1..10 : Digits[i] = c) - 1

\* fmt.Fprint(file, pid) for an int: the decimal text of the number.
RECURSIVE Itoa(_)
Itoa(n) == IF n < 0 THEN <<"-">> \o Itoa(0 - n)
           ELSE IF n < 10 THEN <<Digits[n + 1]>>
           ELSE Itoa(n \div 10) \o <<Digits[(n % 10) + 1]>>

RECURSIVE DigitsValue(_, _)
DigitsValue(s, acc) == IF s = <<>> THEN acc
                       ELSE DigitsValue(Tail(s), acc * 10 + DigitVal(Head(s)))

\* Atoi with its error dropped: text that is no number reads as 0.
AtoiLenient(s) ==
    IF s # <<>> /\ \A i \in 1..Len(s) : IsDigit(s[i])
    THEN [ok |-> TRUE, val |-> DigitsValue(s, 0)]
    ELSE [ok |-> TRUE, val |-> 0]

\* strconv.Atoi: an optional sign followed by at least one digit and nothing
\* else; anything else (empty text, a letter, a trailing newline) is an error.
Atoi(s) ==
    LET signed == s # <<>> /\ Head(s) \in {"+", "-"}
        body   == IF signed THEN Tail(s) ELSE s
        ok     == body # <<>> /\ \A i \in 1..Len(body) : IsDigit(body[i])
        mag    == IF ok THEN DigitsValue(body, 0) ELSE 0
    IN  [ok |-> ok, val |-> IF signed /\ Head(s) = "-" THEN 0 - mag ELSE mag]

\* os.ReadFile followed by strconv.Atoi, as isProcessRunWithPidFile and
\* stopProcess both do: the PID named by the file, or no PID at all.
HasPid(content) == content # Absent /\ Atoi(content).ok

PidOf(content) == Atoi(content).val

\* ------------------------------------------------------- file.WriteTextFile
\* os.OpenFile(path, O_CREATE|O_WRONLY, 0644): an absent file is created
\* empty, an existing file is opened as it is (the flags hold no O_TRUNC).
OpenFile(content) == IF content = Absent THEN <<>> ELSE content

\* fmt.Fprint on the freshly opened file: one write at offset 0, which
\* replaces the first Len(text) characters and keeps whatever lies behind.
Fprint(content, text) ==
    IF Len(content) <= Len(text) THEN text
    ELSE text \o SubSeq(content, Len(text) + 1, Len(content))

\* The content of the file after a successful WriteTextFile(path, data).
WriteTextFile(content, data) == Fprint(OpenFile(content), Itoa(data))

\* ---------------------------------------------------------------- signals
\* signal.Ignore without the terminal-stop signal.
IgnoredSignalsShort ==
    {"ABRT", "ALRM", "HUP", "ILL", "PROF", "QUIT", "VTALRM"}

\* The signals setupSignal hands to signal.Ignore.
IgnoredSignals ==
    {"ABRT", "ALRM", "HUP", "TSTP", "ILL", "PROF", "QUIT", "VTALRM"}

\* The signal setupSignal routes into sigChan with signal.Notify.
NotifiedSignals == {"TERM"}

\* The signals somebody may send to a process.
Signals == {"ABRT", "ALRM", "HUP", "TSTP", "ILL", "PROF", "QUIT", "VTALRM",
            "TERM", "KILL"}

\* What a signal does to a Go process that made no arrangement for it.
DefaultAction(s) ==
    CASE s \in {"KILL", "TERM", "HUP", "ABRT", "ILL", "QUIT"} -> "die"
      [] s = "TSTP"                                           -> "stop"
      [] OTHER                                                -> "none"

\* What a signal does to a process after setupSignal has run.
ArmedAction(s) ==
    IF s \in IgnoredSignals THEN "none"
    ELSE IF s \in NotifiedSignals THEN "notify"
    ELSE DefaultAction(s)

\* ------------------------------------------------------------------ state
VARIABLES
    pidFile,    \* content of var/openkms.pid, or Absent
    proc,       \* per pid, the process that holds it:
                \*   kind     "free", "start", "stop" (os.Args[1]) or "other"
                \*   daemon   the environment holds DAEMON=true
                \*   pc       where main stands
                \*   rd       pidBytes, what os.ReadFile returned
                \*   fd       WriteTextFile holds the PID file open, and the
                \*            open file is still the one linked at the path
                \*   armed    setupSignal has run
                \*   sigChan  number of signals buffered in sigChan (capacity 1)
                \*   lpc      where the listener goroutine stands
                \*   gotTerm  a SIGTERM has been sent to the process
                \*   rec      WriteTextFile has written the pid of the process
                \*            into the PID file
                \*   warned   main has logged the error of WriteTextFile
                \*   early    (of a command line) a daemon child has been
                \*            created, or has written its pid, since the
                \*            command line was typed
                \*   stopped  the process is stopped by a job-control signal
    last,       \* the process that ended most recently, as its parent saw it
                \* end: pid, kind, daemon, armed, gotTerm, at (the pc it ended
                \* at), out (what it printed), exitCode (-1 if a signal ended
                \* it), killedBy (that signal; "stopProcess" for the SIGTERM of
                \* a `stop` invocation), child (pid cmd.Start created, or 0),
                \* sent (pid stopProcess sent SIGTERM to with success, or 0)
    events      \* events from outside so far

vars == <<pidFile, proc, last, events>>

NoOutput == [msg |-> "none", pid |-> 0]

FreeProc == [kind |-> "free", daemon |-> FALSE, pc |-> "none", rd |-> Absent,
             fd |-> FALSE, armed |-> FALSE, sigChan |-> 0, lpc |-> "none",
             gotTerm |-> FALSE, rec |-> FALSE, warned |-> FALSE,
             early |-> FALSE, stopped |-> FALSE]

\* A process as exec leaves it at the top of main.
NewProc(c, marker) ==
    [FreeProc EXCEPT !.kind = c, !.daemon = marker,
                     !.pc = IF c = "start" THEN "check" ELSE "sread"]

NoLast == [pid |-> 0, kind |-> "none", daemon |-> FALSE, armed |-> FALSE,
           gotTerm |-> FALSE, at |-> "none", out |-> NoOutput,
           exitCode |-> -1, killedBy |-> "none", child |-> 0, sent |-> 0]

\* The record of process p ending now.
Ended(p, r, o, code, sig, c, t) ==
    [pid |-> p, kind |-> r.kind, daemon |-> r.daemon, armed |-> r.armed,
     gotTerm |-> r.gotTerm, at |-> r.pc, out |-> o, exitCode |-> code,
     killedBy |-> sig, child |-> c, sent |-> t]

\* The process exists for the operating system (kill(pid, 0) succeeds).
Exists(p) == p \in Pids /\ proc[p].kind # "free"

\* The process exists and is scheduled.
Running(p) == Exists(p) /\ ~proc[p].stopped

FreePids == {p \in Pids : proc[p].kind = "free"}

\* IsProcessRunning with the test of the probe's error turned around.
IsProcessRunningInverted(pid) == ~Exists(pid)

\* process.IsProcessRunning(pid): os.FindProcess, then the zero-signal probe
\* (kill(pid, 0)), which answers for whatever process holds the pid now.  A
\* process that has ended is taken to be reaped at once.
IsProcessRunning(pid) == Exists(pid)

\* isProcessRunWithPidFile on the bytes the invocation has read.
isProcessRunWithPidFile(content) ==
    IF content = Absent THEN FALSE
    ELSE IF ~Atoi(content).ok THEN FALSE
    ELSE IsProcessRunning(Atoi(content).val)

Init ==
    /\ pidFile \in InitialContents
    /\ proc = [p \in Pids |-> FreeProc]
    /\ last = NoLast
    /\ events = 0

\* ----------------------------------------------------- ends of a process
\* os.Exit(code), or main returning (code 0), after printing `o`; `c` is the
\* child the process has created and `t` the process it has signalled.
Leave(p, code, o, c, t) ==
    /\ proc' = [proc EXCEPT ![p] = FreeProc]
    /\ last' = Ended(p, proc[p], o, code, "none", c, t)

\* What signal s does to the existing process t.
Effect(t, s) ==
    IF proc[t].stopped THEN (IF s = "KILL" THEN "die" ELSE "none")
    ELSE IF proc[t].kind # "other" /\ proc[t].armed THEN ArmedAction(s)
    ELSE DefaultAction(s)

\* Signal with an unbuffered sigChan: signal.Notify does not block, so a
\* SIGTERM that finds no listener in `<-sigChan` is dropped.
SignalUnbuffered(t, s, tag) ==
    LET e == Effect(t, s)
        r == [proc[t] EXCEPT !.gotTerm = @ \/ s = "TERM"]
    IN  [proc |-> CASE e = "die"    -> [proc EXCEPT ![t] = FreeProc]
                    [] e = "stop"   -> [proc EXCEPT ![t] = [r EXCEPT !.stopped = TRUE]]
                    [] e = "notify" /\ r.lpc = "recv"
                                    -> [proc EXCEPT ![t] = [r EXCEPT !.sigChan = 1]]
                    [] OTHER        -> [proc EXCEPT ![t] = r],
         last |-> IF e = "die"
                  THEN Ended(t, r, NoOutput, -1, tag, 0,
                             IF r.pc = "sremove" THEN Atoi(r.rd).val ELSE 0)
                  ELSE last]

\* The processes after signal s has been sent to t; `tag` is what killedBy
\* records if the signal ends the process.
Signal(t, s, tag) ==
    LET e == Effect(t, s)
        r == [proc[t] EXCEPT !.gotTerm = @ \/ s = "TERM"]
    IN  [proc |-> CASE e = "die"    -> [proc EXCEPT ![t] = FreeProc]
                    [] e = "stop"   -> [proc EXCEPT ![t] = [r EXCEPT !.stopped = TRUE]]
                    \* signal.Notify never blocks: a full channel drops it
                    [] e = "notify" -> [proc EXCEPT ![t] = [r EXCEPT !.sigChan = 1]]
                    [] OTHER        -> [proc EXCEPT ![t] = r],
         last |-> IF e = "die"
                  THEN Ended(t, r, NoOutput, -1, tag, 0,
                             IF r.pc = "sremove" THEN Atoi(r.rd).val ELSE 0)
                  ELSE last]

\* The process r as it is once a daemon child has come, or has written its
\* pid: a command line typed before that is no longer the later one.
Aged(r) ==
    IF r.kind \in {"start", "stop"} /\ ~r.daemon
    THEN [r EXCEPT !.early = TRUE]
    ELSE r

\* The processes after the write of the PID file by p has returned no error.
Written(p) ==
    [q \in Pids |->
        IF q = p THEN [proc[p] EXCEPT !.fd = FALSE, !.pc = "wait",
                                      !.rec = proc[p].fd]
        ELSE Aged(proc[q])]

\* ------------------------------------------------------- main: `start`
\* isProcessRunWithPidFile, first half: os.ReadFile and strconv.Atoi.
StartCheck(p) ==
    /\ Running(p) /\ proc[p].kind = "start" /\ proc[p].pc = "check"
    /\ proc' = [proc EXCEPT ![p].rd = pidFile,
                            ![p].pc = IF HasPid(pidFile) THEN "probe" ELSE "arm"]
    /\ UNCHANGED <<pidFile, last, events>>

\* isProcessRunWithPidFile, second half: the liveness probe, and the
\* `case "start"` branch of main that acts on the answer.
StartProbe(p) ==
    /\ Running(p) /\ proc[p].kind = "start" /\ proc[p].pc = "probe"
    /\ IF isProcessRunWithPidFile(proc[p].rd)
       THEN Leave(p, 0, [msg |-> "already", pid |-> 0], 0, 0)
       ELSE /\ proc' = [proc EXCEPT ![p].pc = "arm"]
            /\ UNCHANGED last
    /\ UNCHANGED <<pidFile, events>>

\* sigChan and stopChan are made, setupSignal runs.
SetupSignal(p) ==
    /\ Running(p) /\ proc[p].kind = "start" /\ proc[p].pc = "arm"
    /\ proc' = [proc EXCEPT ![p].armed = TRUE, ![p].rd = Absent,
                            ![p].pc = IF proc[p].daemon THEN "go" ELSE "spawn"]
    /\ UNCHANGED <<pidFile, last, events>>

\* The processes after cmd.Start in parent p has created child c with the
\* marker `marker` and p has left.
Spawned(p, c, marker) ==
    [q \in Pids |->
        IF q = p THEN FreeProc
        ELSE IF q = c THEN NewProc("start", marker)
        ELSE Aged(proc[q])]

\* Daemonize with a child environment that lacks DAEMON=true.
DaemonizeNoMarker(p) ==
    /\ Running(p) /\ proc[p].kind = "start" /\ proc[p].pc = "spawn"
    /\ ~proc[p].daemon
    /\ \/ \E c \in FreePids :
            /\ proc' = Spawned(p, c, FALSE)
            /\ last' = Ended(p, proc[p], NoOutput, 0, "none", c, 0)
       \/ Leave(p, 1, [msg |-> "spawnerr", pid |-> 0], 0, 0)
    /\ UNCHANGED <<pidFile, events>>

\* process.Daemonize in a process without the marker: cmd.Start succeeds
\* and the parent leaves with os.Exit(0), or it fails and main prints the
\* error and leaves with os.Exit(1).
Daemonize(p) ==
    /\ Running(p) /\ proc[p].kind = "start" /\ proc[p].pc = "spawn"
    /\ ~proc[p].daemon
    /\ \/ \E c \in FreePids :
            /\ proc' = Spawned(p, c, TRUE)
            /\ last' = Ended(p, proc[p], NoOutput, 0, "none", c, 0)
       \/ Leave(p, 1, [msg |-> "spawnerr", pid |-> 0], 0, 0)
    /\ UNCHANGED <<pidFile, events>>

\* `go func() { ... }()`: the listener goroutine starts.
StartListener(p) ==
    /\ Running(p) /\ proc[p].kind = "start" /\ proc[p].pc = "go"
    /\ proc[p].daemon
    /\ proc' = [proc EXCEPT ![p].lpc = "recv", ![p].pc = "init"]
    /\ UNCHANGED <<pidFile, last, events>>

\* initialization(): the directories and the logger; finalization is deferred.
Initialization(p) ==
    /\ Running(p) /\ proc[p].pc = "init"
    /\ proc' = [proc EXCEPT ![p].pc = "open"]
    /\ UNCHANGED <<pidFile, last, events>>

\* WriteTextFile, os.OpenFile: on failure main logs a warning and returns.
OpenPidFile(p) ==
    /\ Running(p) /\ proc[p].pc = "open"
    /\ \/ /\ pidFile' = OpenFile(pidFile)
          /\ proc' = [proc EXCEPT ![p].fd = TRUE, ![p].pc = "write"]
       \/ /\ proc' = [proc EXCEPT ![p].warned = TRUE, ![p].pc = "final"]
          /\ UNCHANGED pidFile
    /\ UNCHANGED <<last, events>>

\* WritePid where the error of fmt.Fprint is fatal: the process leaves with
\* os.Exit(1) on the spot.
WritePidFatal(p) ==
    /\ Running(p) /\ proc[p].pc = "write"
    /\ \/ /\ pidFile' = IF proc[p].fd THEN Fprint(pidFile, Itoa(p))
                        ELSE pidFile
          /\ proc' = Written(p)
          /\ UNCHANGED last
       \/ /\ Leave(p, 1, NoOutput, 0, 0)
          /\ UNCHANGED pidFile
    /\ UNCHANGED events

\* WriteTextFile, fmt.Fprint of os.Getpid() and the deferred Close.  A file
\* that was removed since the open takes the text with it.
WritePid(p) ==
    /\ Running(p) /\ proc[p].pc = "write"
    /\ \/ /\ pidFile' = IF proc[p].fd THEN Fprint(pidFile, Itoa(p))
                        ELSE pidFile
          /\ proc' = Written(p)
       \/ /\ proc' = [proc EXCEPT ![p].fd = FALSE, ![p].warned = TRUE,
                                  ![p].pc = "final"]
          /\ UNCHANGED pidFile
    /\ UNCHANGED <<last, events>>

\* The listener: `sig := <-sigChan`.
ListenerReceive(p) ==
    /\ Running(p) /\ proc[p].lpc = "recv" /\ proc[p].sigChan > 0
    /\ proc' = [proc EXCEPT ![p].sigChan = 0, ![p].lpc = "log"]
    /\ UNCHANGED <<pidFile, last, events>>

\* The listener: log.LogInfo("Receive SIGNAL: %d", sig).
ListenerLog(p) ==
    /\ Running(p) /\ proc[p].lpc = "log"
    /\ proc' = [proc EXCEPT ![p].lpc = "send"]
    /\ UNCHANGED <<pidFile, last, events>>

\* The wait of main without its partner: `<-stopChan` returns at once (as on
\* a closed channel).
HandoffUnguarded(p) ==
    /\ Running(p) /\ proc[p].pc = "wait"
    /\ proc' = [proc EXCEPT ![p].pc = "final"]
    /\ UNCHANGED <<pidFile, last, events>>

\* `stopChan <- true` meets `<-stopChan`: the channel is unbuffered, so the
\* send and the receive are one step.
Handoff(p) ==
    /\ Running(p) /\ proc[p].pc = "wait" /\ proc[p].lpc = "send"
    /\ proc' = [proc EXCEPT ![p].pc = "final", ![p].lpc = "done"]
    /\ UNCHANGED <<pidFile, last, events>>

\* finalization() that also removes the PID file on the way out.
FinalizationRemovesPidFile(p) ==
    /\ Running(p) /\ proc[p].pc = "final"
    /\ Leave(p, 0, NoOutput, 0, 0)
    /\ pidFile' = Absent
    /\ UNCHANGED events

\* The deferred finalization(), then main returns.
Finalization(p) ==
    /\ Running(p) /\ proc[p].pc = "final"
    /\ Leave(p, 0, NoOutput, 0, 0)
    /\ UNCHANGED <<pidFile, events>>

\* -------------------------------------------------------- main: `stop`
\* The branch without its `pid != 0` test: it prints the Stop line whenever
\* stopProcess returned no error.
StopMessageAlways(pid, err, errPid) ==
    IF err THEN [msg |-> "err", pid |-> errPid]
    ELSE [msg |-> "stop", pid |-> pid]

\* The `case "stop"` branch of main: what it prints for the (pid, err) that
\* stopProcess returned (errPid is the pid the error text holds); it leaves
\* with os.Exit(0) whatever was returned.
StopMessage(pid, err, errPid) ==
    IF err THEN [msg |-> "err", pid |-> errPid]
    ELSE IF pid # 0 THEN [msg |-> "stop", pid |-> pid]
    ELSE NoOutput

\* stopProcess: os.ReadFile and strconv.Atoi; without a PID it returns (0, nil).
StopRead(p) ==
    /\ Running(p) /\ proc[p].kind = "stop" /\ proc[p].pc = "sread"
    /\ IF HasPid(pidFile)
       THEN /\ proc' = [proc EXCEPT ![p].rd = pidFile, ![p].pc = "sprobe"]
            /\ UNCHANGED last
       ELSE Leave(p, 0, StopMessage(0, FALSE, 0), 0, 0)
    /\ UNCHANGED <<pidFile, events>>

\* stopProcess: os.FindProcess and the zero-signal probe; a process that
\* does not answer makes it return (0, nil).
StopProbe(p) ==
    /\ Running(p) /\ proc[p].kind = "stop" /\ proc[p].pc = "sprobe"
    /\ IF Exists(PidOf(proc[p].rd))
       THEN /\ proc' = [proc EXCEPT ![p].pc = "sterm"]
            /\ UNCHANGED last
       ELSE Leave(p, 0, StopMessage(0, FALSE, 0), 0, 0)
    /\ UNCHANGED <<pidFile, events>>

\* stopProcess: process.Signal(SIGTERM); if the process is gone by now it
\* returns (0, error with the pid).
StopTerm(p) ==
    /\ Running(p) /\ proc[p].kind = "stop" /\ proc[p].pc = "sterm"
    /\ LET t == PidOf(proc[p].rd)
           g == Signal(t, "TERM", "stopProcess")
       IN  IF Exists(t)
           THEN \* the pid may be the caller's own: the signal then ends it
                /\ proc' = IF g.proc[p].kind = "free" THEN g.proc
                           ELSE [g.proc EXCEPT ![p].pc = "sremove"]
                /\ last' = IF g.proc[p].kind = "free"
                           THEN [g.last EXCEPT !.sent = t]
                           ELSE g.last
           ELSE Leave(p, 0, StopMessage(0, TRUE, t), 0, 0)
    /\ UNCHANGED <<pidFile, events>>

\* stopProcess without its os.Remove.
StopRemoveKeepsFile(p) ==
    /\ Running(p) /\ proc[p].kind = "stop" /\ proc[p].pc = "sremove"
    /\ LET t == PidOf(proc[p].rd)
       IN  /\ proc' = [proc EXCEPT ![p] = FreeProc]
           /\ last' = Ended(p, proc[p], [msg |-> "stop", pid |-> t], 0,
                           "none", 0, t)
    /\ UNCHANGED <<pidFile, events>>

\* stopProcess: os.Remove(pidFilePath) and `return pid, nil`; main prints.
StopRemove(p) ==
    /\ Running(p) /\ proc[p].kind = "stop" /\ proc[p].pc = "sremove"
    /\ pidFile' = Absent
    /\ LET t == PidOf(proc[p].rd)
       IN  /\ proc' = [q \in Pids |->
                         IF q = p THEN FreeProc
                         ELSE [proc[q] EXCEPT !.fd = FALSE]]
           /\ last' = Ended(p, proc[p], StopMessage(t, FALSE, 0), 0, "none",
                           0, t)
    /\ UNCHANGED events

\* ------------------------------------------------------------ environment
\* The user types `openkms start` or `openkms stop`.
NewCmd(p, c) ==
    /\ events < MaxEvents
    /\ p \in FreePids
    /\ proc' = [proc EXCEPT ![p] = NewProc(c, FALSE)]
    /\ events' = events + 1
    /\ UNCHANGED <<pidFile, last>>

\* Somebody else sends a signal to a daemon instance.  The signals
\* setupSignal ignores are sent once setupSignal has run.
Deliver(p, s) ==
    /\ events < MaxEvents
    /\ Exists(p) /\ proc[p].kind = "start" /\ proc[p].daemon
    /\ s \in IgnoredSignals => proc[p].armed
    /\ proc' = Signal(p, s, s).proc
    /\ last' = Signal(p, s, s).last
    /\ events' = events + 1
    /\ UNCHANGED pidFile

\* A process that is not an openkms process appears under a free pid.
SpawnOther(p) ==
    /\ events < MaxEvents
    /\ p \in FreePids
    /\ proc' = [proc EXCEPT ![p] = [FreeProc EXCEPT !.kind = "other",
                                                    !.pc = "run"]]
    /\ events' = events + 1
    /\ UNCHANGED <<pidFile, last>>

\* A process that is not an openkms process ends.
OtherExit(p) ==
    /\ Exists(p) /\ proc[p].kind = "other"
    /\ Leave(p, 0, NoOutput, 0, 0)
    /\ UNCHANGED <<pidFile, events>>

Next ==
    \/ \E p \in Pids : StartCheck(p)
    \/ \E p \in Pids : StartProbe(p)
    \/ \E p \in Pids : SetupSignal(p)
    \/ \E p \in Pids : Daemonize(p)
    \/ \E p \in Pids : StartListener(p)
    \/ \E p \in Pids : Initialization(p)
    \/ \E p \in Pids : OpenPidFile(p)
    \/ \E p \in Pids : WritePid(p)
    \/ \E p \in Pids : ListenerReceive(p)
    \/ \E p \in Pids : ListenerLog(p)
    \/ \E p \in Pids : Handoff(p)
    \/ \E p \in Pids : Finalization(p)
    \/ \E p \in Pids : StopRead(p)
    \/ \E p \in Pids : StopProbe(p)
    \/ \E p \in Pids : StopTerm(p)
    \/ \E p \in Pids : StopRemove(p)
    \/ \E p \in Pids, c \in {"start", "stop"} : NewCmd(p, c)
    \/ \E p \in Pids, s \in Signals : Deliver(p, s)
    \/ \E p \in Pids : SpawnOther(p)
    \/ \E p \in Pids : OtherExit(p)

Spec == Init /\ [][Next]_vars

\* A step of the program itself: of main or of the listener goroutine of
\* some process.
Run ==
    \E p \in Pids :
        \/ StartCheck(p) \/ StartProbe(p) \/ SetupSignal(p) \/ Daemonize(p)
        \/ StartListener(p) \/ Initialization(p) \/ OpenPidFile(p)
        \/ WritePid(p) \/ ListenerReceive(p) \/ ListenerLog(p)
        \/ Handoff(p) \/ Finalization(p)
        \/ StopRead(p) \/ StopProbe(p) \/ StopTerm(p) \/ StopRemove(p)

\* A fresh installation: no PID file yet.
FairInit == Init /\ pidFile = Absent

\* The operating system and the Go scheduler run a process, and a goroutine,
\* that can take a step.  The events from outside are under no obligation.
\* The behaviours start from a fresh installation; every PID file content
\* that a run of the program leaves behind is met on the way.
FairSpec == FairInit /\ [][Next]_vars /\ WF_vars(Run)

\* ------------------------------------------------------------------ claims
\* A live daemon instance: a process that carries the marker, has passed the
\* singleton check of main and has not ended.
LiveDaemon(p) ==
    /\ Exists(p)
    /\ proc[p].kind = "start"
    /\ proc[p].daemon
    /\ proc[p].pc \notin {"check", "probe"}

LiveDaemons == {p \in Pids : LiveDaemon(p)}

\* C1 (as claimed): under every interleaving of `start` and `stop`
\* invocations there is at most one live daemon instance at any time.
AtMostOneLiveDaemon == Cardinality(LiveDaemons) <= 1

\* C2: a `start` invocation (with or without the marker) whose liveness
\* probe finds the process named by the PID file alive prints the
\* already-running message, leaves with code 0, has created no child, and
\* changes neither the PID file nor any other process.
SingletonEnforcement ==
    [][\A p \in Pids :
         (StartProbe(p) /\ Exists(PidOf(proc[p].rd)))
         => /\ last' = Ended(p, proc[p], [msg |-> "already", pid |-> 0], 0,
                             "none", 0, 0)
            /\ pidFile' = pidFile
            /\ \A q \in Pids \ {p} : proc'[q] = proc[q]
            /\ ~Exists(p)']_vars

\* C2, witness: a `start` invocation has just left with the message and
\* code 0, without a child, and the PID file names a live process.
SingletonEnforcementSeen ==
    /\ last.kind = "start" /\ last.at = "probe"
    /\ last.out.msg = "already" /\ last.exitCode = 0 /\ last.child = 0
    /\ HasPid(pidFile) /\ Exists(PidOf(pidFile))
    /\ LiveDaemon(PidOf(pidFile))

\* C3 (as claimed): whatever the PID file held before, after a successful
\* WriteTextFile(path, os.Getpid()) it holds exactly the decimal text of
\* the caller's pid.
RecordOwnProcessExact ==
    [][\A p \in Pids :
         (WritePid(p) /\ proc[p].fd /\ proc'[p].pc = "wait")
         => pidFile' = Itoa(p)]_vars

\* C4: a `stop` invocation that finds the PID file naming a live process
\* (another process: it was alive before the invocation began) goes on to
\* the termination signal; the signal reaches that process and touches no
\* other; the invocation then removes the PID file, prints the stopped pid
\* and leaves with code 0, whether or not the target has ended.
EndToEndStop ==
    [][\A p \in Pids :
         LET t == PidOf(proc[p].rd)
         IN  /\ (StopRead(p) /\ HasPid(pidFile) /\ Exists(PidOf(pidFile))
                   /\ PidOf(pidFile) # p)
                => proc'[p] = [proc[p] EXCEPT !.rd = pidFile, !.pc = "sprobe"]
             /\ (StopProbe(p) /\ Exists(t) /\ t # p)
                => proc'[p].pc = "sterm"
             /\ (StopTerm(p) /\ Exists(t) /\ t # p)
                => /\ proc'[p] = [proc[p] EXCEPT !.pc = "sremove"]
                   /\ \A q \in Pids \ {p, t} : proc'[q] = proc[q]
                   /\ Exists(t)' => proc'[t].gotTerm
                   /\ ~Exists(t)' => /\ last'.pid = t
                                     /\ last'.killedBy = "stopProcess"
                   /\ pidFile' = pidFile
             /\ StopRemove(p)
                => /\ pidFile' = Absent
                   /\ last' = Ended(p, proc[p], [msg |-> "stop", pid |-> t],
                                    0, "none", 0, t)
                   /\ ~Exists(p)'
                   /\ \A q \in Pids \ {p} : Exists(q)' = Exists(q)]_vars

\* C4, witness: a `stop` invocation has just left with code 0 after printing
\* the pid; the PID file is gone; the daemon it signalled is still there.
EndToEndStopSeen ==
    /\ last.kind = "stop" /\ last.at = "sremove" /\ last.exitCode = 0
    /\ last.out = [msg |-> "stop", pid |-> last.sent]
    /\ pidFile = Absent
    /\ LiveDaemon(last.sent) /\ proc[last.sent].gotTerm

\* C5: a `start` invocation that finds no PID file goes on; cmd.Start
\* creates a process at the top of main with the marker and the parent
\* leaves with code 0; the daemon instance that writes into the file created
\* for it leaves its own pid as the content; and a daemon instance that
\* waits for shutdown leaves the wait by itself only for finalization and
\* only after a SIGTERM has been sent to it (otherwise it is killed).
EndToEndStart ==
    [][\A p \in Pids :
         /\ (StartCheck(p) /\ pidFile = Absent) => proc'[p].pc = "arm"
         /\ (Daemonize(p) /\ last'.exitCode = 0)
            => /\ last'.child \in FreePids
               /\ proc'[last'.child] = NewProc("start", TRUE)
         /\ (OpenPidFile(p) /\ pidFile = Absent /\ proc'[p].pc = "write")
            => pidFile' = <<>>
         /\ (WritePid(p) /\ proc[p].fd /\ pidFile = <<>>
               /\ proc'[p].pc = "wait")
            => pidFile' = Itoa(p)
         /\ (proc[p].pc = "wait" /\ proc'[p].pc # "wait")
            => \/ proc[p].gotTerm /\ proc'[p].pc = "final"
               \/ ~Exists(p)' /\ last'.pid = p /\ last'.killedBy = "KILL"]_vars

\* C5, witness: the parent has left with code 0 and its child waits for
\* shutdown, with its own pid as the content of the PID file and no SIGTERM
\* sent to it.
EndToEndStartSeen ==
    /\ last.kind = "start" /\ ~last.daemon /\ last.exitCode = 0
    /\ LiveDaemon(last.child)
    /\ proc[last.child].pc = "wait" /\ ~proc[last.child].gotTerm
    /\ pidFile = Itoa(last.child)

\* C6: for a PID file that holds an integer naming no existing process
\* isProcessRunWithPidFile answers false, and a `start` invocation whose
\* probe finds that goes on to setupSignal and the launch instead of leaving.
StaleFileTolerance ==
    /\ [](HasPid(pidFile) /\ ~Exists(PidOf(pidFile))
            => ~isProcessRunWithPidFile(pidFile))
    /\ [][\A p \in Pids :
            (StartProbe(p) /\ ~Exists(PidOf(proc[p].rd)))
            => /\ proc'[p] = [proc[p] EXCEPT !.pc = "arm"]
               /\ last' = last]_vars

\* C6, witness: a `start` invocation stands behind the check with a PID read
\* from the file that names no process.
StaleFileToleranceSeen ==
    \E p \in Pids :
        /\ Running(p) /\ proc[p].kind = "start" /\ proc[p].pc = "arm"
        /\ HasPid(proc[p].rd) /\ ~Exists(PidOf(proc[p].rd))
        /\ pidFile = proc[p].rd

\* The text is a decimal integer: an optional sign, then digits only.
IsInteger(text) ==
    LET body == IF text # <<>> /\ Head(text) \in {"+", "-"} THEN Tail(text)
                ELSE text
    IN  /\ body # <<>>
        /\ \A i \in 1..Len(body) :
              body[i] \in {"0", "1", "2", "3", "4", "5", "6", "7", "8", "9"}

\* The content is that of an existing file and is not an integer.
Malformed(content) == content # Absent /\ ~IsInteger(content)

\* C7: on a PID file whose content is not an integer both functions do what
\* they do on a missing file: isProcessRunWithPidFile answers false and
\* `start` goes on; stopProcess returns (0, nil), so that `stop` prints
\* nothing and leaves with code 0, and no process is signalled.
MalformedPidFile ==
    /\ [](Malformed(pidFile) => ~isProcessRunWithPidFile(pidFile))
    /\ [][\A p \in Pids :
            /\ (StartCheck(p) /\ (Malformed(pidFile) \/ pidFile = Absent))
               => proc'[p].pc = "arm" /\ last' = last
            /\ (StopRead(p) /\ (Malformed(pidFile) \/ pidFile = Absent))
               => /\ last' = Ended(p, proc[p], NoOutput, 0, "none", 0, 0)
                  /\ pidFile' = pidFile
                  /\ \A q \in Pids \ {p} : proc'[q] = proc[q]]_vars

\* C7, witness: a `stop` invocation has just left silently, with code 0 and
\* without a signal, on a PID file that is malformed.
MalformedPidFileSeen ==
    /\ Malformed(pidFile)
    /\ last.kind = "stop" /\ last.at = "sread" /\ last.out = NoOutput
    /\ last.exitCode = 0 /\ last.sent = 0

\* C8: a `stop` invocation that runs right after a `stop` invocation has
\* signalled the owner and removed the PID file finds no owner: it signals
\* nobody, prints nothing and leaves with code 0.
StopIdempotence ==
    [][\A p \in Pids :
         (StopRead(p) /\ pidFile = Absent
            /\ last.kind = "stop" /\ last.out.msg = "stop")
         => /\ last' = Ended(p, proc[p], NoOutput, 0, "none", 0, 0)
            /\ pidFile' = Absent
            /\ \A q \in Pids \ {p} : proc'[q] = proc[q]]_vars

\* C8, witness: the second `stop` has just left silently with code 0; the
\* PID file is still gone and the daemon the first one signalled is still
\* there, with no further signal buffered for it.
StopIdempotenceSeen ==
    /\ last.kind = "stop" /\ last.at = "sread" /\ last.out = NoOutput
    /\ last.exitCode = 0 /\ last.sent = 0
    /\ pidFile = Absent
    /\ \E d \in Pids : LiveDaemon(d) /\ proc[d].pc = "wait" /\ proc[d].gotTerm

\* C9 (as claimed): every `stop` invocation ends with exit code 0, never
\* daemonizes or records a pid, prints the Stop line exactly when the
\* termination signal was sent, the error exactly when the send failed
\* after a successful probe, and nothing otherwise.
StopBestEffort ==
    /\ \A p \in Pids :
         proc[p].kind = "stop"
         => /\ proc[p].pc \in {"sread", "sprobe", "sterm", "sremove"}
            /\ ~proc[p].daemon /\ ~proc[p].fd /\ proc[p].lpc = "none"
    /\ last.kind = "stop"
       => /\ last.exitCode = 0
          /\ last.child = 0
          /\ last.out.msg = "stop" <=> last.sent # 0
          /\ last.out.msg = "err" <=> (last.at = "sterm" /\ last.sent = 0)
          /\ last.out.msg \in {"stop", "err", "none"}
          /\ last.out.msg = "stop" => last.out.pid = last.sent

\* The signals the specification lists as ignored.
ListedIgnored ==
    {"ABRT", "ALRM", "HUP", "TSTP", "ILL", "PROF", "QUIT", "VTALRM"}

\* C10: once setupSignal has run, a listed signal changes nothing at all: it
\* neither ends nor stops the process nor moves main or the listener; a
\* SIGTERM to a running armed process fills sigChan and does nothing else;
\* main leaves the wait only in the hand-off with the listener, which the
\* listener reaches only after a SIGTERM, and the listener hands off once.
SignalMasking ==
    /\ [](\A p \in Pids : ~(proc[p].armed /\ proc[p].stopped))
    /\ [](last.killedBy \in ListedIgnored => ~last.armed)
    /\ [](\A p \in Pids :
            proc[p].lpc \in {"log", "send", "done"} => proc[p].gotTerm)
    /\ [][\A p \in Pids :
            /\ \A s \in ListedIgnored :
                 (Deliver(p, s) /\ proc[p].armed)
                 => proc' = proc /\ last' = last /\ pidFile' = pidFile
            /\ (Deliver(p, "TERM") /\ proc[p].armed)
               => /\ proc' = [proc EXCEPT ![p].sigChan = 1,
                                          ![p].gotTerm = TRUE]
                  /\ last' = last
            /\ (proc[p].pc = "wait" /\ proc'[p].pc = "final")
               => /\ proc[p].lpc = "send" /\ proc'[p].lpc = "done"
                  /\ proc[p].gotTerm
            /\ proc[p].lpc = "done" => proc'[p].lpc \in {"done", "none"}]_vars

\* C10, witness: the listener has handed off once, main is on its way out,
\* and a further SIGTERM sits in sigChan.
SignalMaskingSeen ==
    \E p \in Pids :
        /\ LiveDaemon(p) /\ proc[p].pc = "final"
        /\ proc[p].lpc = "done" /\ proc[p].sigChan = 1

\* The daemon instance d ends in this step (returns, or is killed).
DaemonEnds(d) ==
    /\ proc[d].kind = "start" /\ proc[d].daemon
    /\ proc'[d].kind = "free"

\* C11: the PID file is deleted only by a `stop` invocation that has sent
\* the termination signal; no step of a daemon instance other than its own
\* WriteTextFile changes the file, so the step in which a daemon instance
\* ends (return after finalization, or a signal) leaves the file as it is,
\* and a file that held its pid still holds it; for the file of an ended
\* daemon whose pid nobody holds isProcessRunWithPidFile answers false.
PidFileLeftBehind ==
    /\ [](last.daemon /\ pidFile = Itoa(last.pid) /\ ~Exists(last.pid)
            => ~isProcessRunWithPidFile(pidFile))
    /\ [][/\ (pidFile # Absent /\ pidFile' = Absent)
             => \E p \in Pids :
                   /\ StopRemove(p)
                   /\ last'.sent = PidOf(proc[p].rd) /\ last'.sent # 0
          /\ pidFile' # pidFile
             => \E p \in Pids :
                   OpenPidFile(p) \/ WritePid(p) \/ StopRemove(p)
          /\ \A d \in Pids :
               DaemonEnds(d)
               => /\ pidFile' = pidFile
                  /\ pidFile = Itoa(d) => pidFile' = Itoa(d)]_vars

\* C11, witness: a daemon instance that had written its pid was killed while
\* it waited; the file still holds its pid, nobody holds that pid, and the
\* liveness check on the file answers false.
PidFileLeftBehindSeen ==
    /\ last.kind = "start" /\ last.daemon /\ last.at = "wait"
    /\ last.killedBy = "KILL"
    /\ pidFile = Itoa(last.pid) /\ ~Exists(last.pid)
    /\ ~isProcessRunWithPidFile(pidFile)

\* C12 (as claimed): stopProcess changes the PID file only on its success
\* path.  The read, the probe and a failed send leave the file as it was,
\* and the failed send returns an error that holds the pid; a send that
\* succeeded is followed by the removal of the file, and the file is
\* removed by no stopProcess whose send did not succeed.
StopFrameEffect ==
    [][/\ \A p \in Pids :
            LET t == PidOf(proc[p].rd)
            IN  /\ (StopRead(p) \/ StopProbe(p)) => pidFile' = pidFile
                /\ (StopTerm(p) /\ ~Exists(t))
                   => /\ pidFile' = pidFile
                      /\ last' = Ended(p, proc[p], [msg |-> "err", pid |-> t],
                                       0, "none", 0, 0)
                /\ (StopTerm(p) /\ Exists(t))
                   => /\ pidFile' = pidFile
                      /\ proc'[p].pc = "sremove"
                /\ StopRemove(p)
                   => pidFile' = Absent /\ last'.sent = t /\ t # 0
       /\ (pidFile # Absent /\ pidFile' = Absent)
          => \E p \in Pids : StopRemove(p)]_vars

\* A daemon instance to which a SIGTERM was sent after setupSignal has run.
TermPending(p) ==
    /\ Exists(p) /\ proc[p].kind = "start" /\ proc[p].daemon
    /\ proc[p].armed /\ proc[p].gotTerm

\* The daemon instance p has ended, after finalization or by a SIGKILL.
EndedAfterTerm(p) ==
    /\ last.pid = p /\ last.kind = "start" /\ last.daemon /\ last.gotTerm
    /\ \/ last.at = "final" /\ last.exitCode = 0
       \/ last.killedBy = "KILL"

\* C13: whenever a SIGTERM has been sent to a daemon instance at any point
\* after setupSignal (before the listener was started, during
\* initialization, before or in the wait), that instance ends, so that in
\* the end no instance is left with a SIGTERM sent to it; such an instance
\* ends only by returning from main after finalization (or by a SIGKILL),
\* and main leaves its wait only in the listener's hand-over.
NoLostShutdown ==
    /\ (\E p \in Pids : TermPending(p)) ~> (\A p \in Pids : ~TermPending(p))
    /\ [][\A p \in Pids :
            /\ (TermPending(p) /\ ~Exists(p)')
               => /\ EndedAfterTerm(p)'
                  /\ last'.killedBy # "KILL" => Finalization(p)
            /\ (TermPending(p) /\ proc[p].pc = "wait" /\ proc'[p].pc # "wait")
               => \/ proc'[p].pc = "final" /\ proc'[p].lpc = "done"
                  \/ EndedAfterTerm(p)' /\ last'.killedBy = "KILL"]_vars

\* C13, witness: the SIGTERM came before main has run initialization; the
\* listener has taken it from sigChan and stands at the hand-over while
\* main is still on its way to the wait.
NoLostShutdownSeen ==
    \E p \in Pids :
        /\ TermPending(p) /\ proc[p].pc = "init" /\ proc[p].lpc = "send"

\* WriteTextFile returns an error in this step of the daemon instance p.
WriteFails(p) ==
    \/ OpenPidFile(p) /\ proc'[p].pc # "write"
    \/ WritePid(p) /\ proc'[p].pc # "wait"

\* C14: when WriteTextFile fails in a daemon instance, the instance is
\* still there, has logged the warning and stands before the deferred
\* finalization, not in the wait; main enters the wait only after a write
\* without error; and a daemon instance that has passed initialization ends,
\* unless a signal kills it, in the one step that runs finalization and
\* returns from main with code 0, which it takes from nowhere else than
\* after a failed write or after the hand-over of the listener.
PidRecordFailure ==
    /\ [](\A p \in Pids :
            proc[p].pc = "final"
            => /\ proc[p].daemon /\ proc[p].armed
               /\ proc[p].warned # (proc[p].lpc = "done"))
    /\ [][\A p \in Pids :
            /\ WriteFails(p)
               => /\ Running(p)' /\ last' = last
                  /\ proc'[p].warned /\ proc'[p].pc = "final"
            /\ (proc[p].pc # "wait" /\ proc'[p].pc = "wait")
               => WritePid(p) /\ ~proc'[p].warned
            /\ (DaemonEnds(p) /\ proc[p].pc \in {"open", "write", "wait", "final"})
               => \/ /\ Finalization(p) /\ proc[p].pc = "final"
                     /\ last' = Ended(p, proc[p], NoOutput, 0, "none", 0, 0)
                  \/ last'.pid = p /\ last'.killedBy = "KILL"]_vars

\* C14, witness: a daemon instance has ended at the end of main with code 0
\* without any SIGTERM sent to it, that is, after a failed write.
PidRecordFailureSeen ==
    /\ last.kind = "start" /\ last.daemon /\ last.at = "final"
    /\ last.exitCode = 0 /\ ~last.gotTerm /\ last.killedBy = "none"

\* The processes that come into being in this step.
Born == {q \in Pids : ~Exists(q) /\ Exists(q)'}

\* C15: a `start` invocation without the marker stays before the launcher:
\* it never starts the listener, runs initialization, opens or writes the
\* PID file or waits; its Daemonize step either creates exactly one process,
\* at the top of main with the marker, and leaves with code 0, or creates
\* none and leaves with code 1 after printing the error.  A process with the
\* marker never stands at the launcher and never has a child, and a process
\* with the marker comes into being only as that one child.
SpawnAndExit ==
    /\ [](\A p \in Pids :
            /\ (proc[p].kind = "start" /\ ~proc[p].daemon)
               => /\ proc[p].pc \in {"check", "probe", "arm", "spawn"}
                  /\ ~proc[p].fd /\ proc[p].lpc = "none"
                  /\ ~proc[p].rec /\ ~proc[p].warned
            /\ (proc[p].kind = "start" /\ proc[p].daemon)
               => proc[p].pc # "spawn")
    /\ [](last.daemon => last.child = 0)
    /\ [][/\ \A p \in Pids :
               /\ Daemonize(p)
                  => /\ ~proc[p].daemon /\ ~Exists(p)' /\ pidFile' = pidFile
                     /\ \/ /\ last'.exitCode = 0 /\ Born = {last'.child}
                           /\ proc'[last'.child] = NewProc("start", TRUE)
                        \/ /\ last'.exitCode = 1 /\ Born = {}
                           /\ last'.child = 0
                           /\ last'.out.msg = "spawnerr"
               /\ (StartListener(p) \/ Initialization(p) \/ OpenPidFile(p)
                     \/ WritePid(p) \/ Handoff(p) \/ Finalization(p))
                  => proc[p].daemon
          /\ \A q \in Born :
               proc'[q].daemon
               => \E p \in Pids : Daemonize(p) /\ last'.child = q]_vars

\* C15, witness: the parent has just left with code 0 and its one child, the
\* only process there is, stands at the top of main with the marker.
SpawnAndExitSeen ==
    /\ last.kind = "start" /\ ~last.daemon /\ last.at = "spawn"
    /\ last.exitCode = 0 /\ last.child # 0
    /\ {q \in Pids : Exists(q)} = {last.child}
    /\ proc[last.child] = NewProc("start", TRUE)

\* The daemon instance d has written its pid into the PID file and waits
\* for shutdown, and no SIGTERM has been sent to it.
Recorded(d) ==
    /\ Exists(d) /\ proc[d].kind = "start" /\ proc[d].daemon
    /\ proc[d].pc = "wait" /\ proc[d].rec /\ ~proc[d].gotTerm

\* Nothing has run since the parent of the daemon instance d left but d
\* itself and the invocation p: the process that ended last is that parent
\* and no other invocation of the program is there.
Since(p, d) ==
    /\ p # d
    /\ last.kind = "start" /\ ~last.daemon /\ last.exitCode = 0
    /\ last.child = d
    /\ \A q \in Pids \ {p, d} : proc[q].kind \in {"free", "other"}

\* C16 (as claimed): whatever the PID file held when a daemon instance was
\* launched, once that instance has written its pid and waits, with no
\* `stop` and no other invocation since, a `start` invocation typed later reads
\* the pid of that instance from the PID file, and so finds it alive,
\* prints the message and leaves without a child.
SequentialSingleton ==
    [][\A p, d \in Pids :
         /\ (StartCheck(p) /\ ~proc[p].daemon /\ ~proc[p].early
               /\ Recorded(d) /\ Since(p, d))
            => /\ HasPid(pidFile) /\ PidOf(pidFile) = d
               /\ proc'[p].pc = "probe"
         /\ (StartProbe(p) /\ ~proc[p].daemon /\ ~proc[p].early
               /\ Recorded(d) /\ Since(p, d)
               /\ PidOf(proc[p].rd) = d)
            => /\ last'.pid = p /\ last'.out.msg = "already"
               /\ last'.child = 0]_vars

\* The process d is a daemon child: it carries the marker, so that it was
\* created by cmd.Start in a parent that left with code 0 in the same step.
DaemonChild(d) ==
    /\ Exists(d) /\ proc[d].kind = "start" /\ proc[d].daemon

\* C17 (as claimed): a `stop` invocation typed after the parent of a daemon
\* child has left, and reading the PID file while that child is alive, at
\* whatever point of its main the child stands, finds the pid of the child
\* there, goes on to the probe and the send, and the SIGTERM reaches the
\* child.
StopReachesDaemon ==
    [][\A p, d \in Pids :
         /\ (StopRead(p) /\ ~proc[p].early /\ DaemonChild(d))
            => /\ HasPid(pidFile) /\ PidOf(pidFile) = d
               /\ proc'[p].pc = "sprobe"
         /\ (StopProbe(p) /\ DaemonChild(d) /\ PidOf(proc[p].rd) = d)
            => proc'[p].pc = "sterm"
         /\ (StopTerm(p) /\ DaemonChild(d) /\ PidOf(proc[p].rd) = d)
            => \/ proc'[d].gotTerm
               \/ last'.pid = d /\ last'.killedBy = "stopProcess"]_vars

\* C18 (as claimed): the listener writes its log line only when
\* initialization() has returned in main, and before main leaves the wait
\* for finalization; main writes its own log line (the warning) only after
\* initialization() as well.
LoggingOrder ==
    [][\A p \in Pids :
         /\ ListenerLog(p)
            => proc[p].pc \in {"open", "write", "wait", "final"}
         /\ WriteFails(p) => proc[p].pc \in {"open", "write"}
         /\ Handoff(p) => proc[p].lpc = "send"
         /\ (Finalization(p) /\ ~proc[p].warned) => proc[p].lpc = "done"]_vars

\* C19 (as claimed): the process to which a `stop` invocation sends the
\* termination signal (another process than itself) is a daemon instance of
\* the program that has written its own pid into the PID file.
StopTargetsDaemonOnly ==
    [][\A p \in Pids :
         LET t == PidOf(proc[p].rd)
         IN  (StopTerm(p) /\ Exists(t) /\ t # p)
             => /\ proc[t].kind = "start" /\ proc[t].daemon
                /\ proc[t].rec]_vars

====
